---- MODULE Spec2Model ----
(***************************************************************************)
(* Caesar cryptanalysis: the shift cipher (crypto/caesar.py), the key      *)
(* search (crypto/bruteforce.py), the feature extractors                   *)
(* (crypto/scoring.py, crypto/frequency.py, bin/crack_caesar.py), the      *)
(* composite scorer and the ranking / decision of bin/crack_caesar.py.     *)
(*                                                                         *)
(* Representation.                                                         *)
(*  - A character is its code point, a text a sequence of code points.     *)
(*    The character domain is Latin-1 (0..255); isalpha / isupper / lower  *)
(*    are Python's str methods restricted to that domain.                  *)
(*  - A float the code rounds to 2 decimals is the integer number of       *)
(*    hundredths (25.0 % is 2500); the index of coincidence, rounded to 4  *)
(*    decimals, is the integer number of ten-thousandths.  Quotients are   *)
(*    taken exactly and rounded half-to-even, which is what round() gives  *)
(*    when the binary float is not within an ulp of a tie.                 *)
(*    The chi-squared sum adds its 26 quotients to a millionth of a        *)
(*    hundredth; the difference of two scores (gap) is exact.              *)
(*  - An exception is the value ZeroDivisionError of the quotient that     *)
(*    raises it; main() then stops at position "crashed".                  *)
(***************************************************************************)
EXTENDS Integers, Sequences, FiniteSets

VARIABLES
    pc,              \* position of the running program
    \* --- the crypto/ functions driven as src/tests drives them
    text,            \* plaintext handed to caesar_encrypt
    k,               \* key handed to caesar_encrypt / caesar_decrypt
    cipher,          \* caesar_encrypt(text, k)
    recovered,       \* caesar_decrypt(cipher, k)
    brute,           \* result of caesar_bruteforce
    freq,            \* result of letter_frequency
    \* --- bin/crack_caesar.py main()
    ciphertext,      \* content of the --input file
    stop_fr,         \* load_stopwords("data/stopwords_fr.txt")
    stop_en,         \* load_stopwords("data/stopwords_en.txt")
    candidates,      \* caesar_bruteforce(ciphertext)
    step,            \* iterations of the (candidate, language) loop done
    results,         \* list of scored results
    results_sorted,  \* sorted(results, key=score, reverse=True)
    gap,             \* best score - runner-up score (hundredths)
    confidence,      \* confidence label
    \* --- compute_normalized_score called on its own
    features,        \* <<n_stop, pct_stop, chi2, ic, avg_len, alpha_r>>
    score            \* its result (hundredths)

testVars  == <<text, k, cipher, recovered, brute, freq>>
mainVars  == <<ciphertext, stop_fr, stop_en, candidates, step, results,
               results_sorted, gap, confidence>>
scoreVars == <<features, score>>
vars      == <<pc, testVars, mainVars, scoreVars>>

---------------------------------------------------------------------------
(* Bounds of the model *)

\* longest text handed to the cipher functions
MaxLen == 2
\* keys handed to caesar_encrypt range over -MaxKey .. MaxKey
MaxKey == 29
\* each feature handed to compute_normalized_score takes GridN + 1 values
GridN == 4
\* largest chi2 (hundredths), ic (ten-thousandths), avg_len (hundredths) tried
MaxChi2 == 40000
MaxIc == 10000
MaxAvgLen == 1000

---------------------------------------------------------------------------
(* Characters: Python's str.isalpha, str.isupper, str.lower on Latin-1 *)

isalpha(c) ==
    \/ c \in 65..90 \/ c \in 97..122
    \/ c \in {170, 181, 186}
    \/ c \in 192..214 \/ c \in 216..246 \/ c \in 248..255

isupper(c) == c \in 65..90 \/ c \in 192..214 \/ c \in 216..222

lower(c) == IF isupper(c) THEN c + 32 ELSE c

\* ord('A'), ord('a')
ordA == 65
orda == 97

---------------------------------------------------------------------------
(* crypto/caesar.py *)

\* the loop body without the isalpha test: every character is shifted
ShiftCharAll(char, key) ==
    LET base == IF isupper(char) THEN ordA ELSE orda
    IN  ((char - base + key) % 26) + base

\* the loop body with base = ord('a') whatever the case of the character
ShiftCharLowerBase(char, key) ==
    IF isalpha(char) THEN ((char - orda + key) % 26) + orda ELSE char

\* one iteration of the loop of caesar_encrypt: the character appended
ShiftChar(char, key) ==
    IF isalpha(char)
    THEN LET base == IF isupper(char) THEN ordA ELSE orda
         IN  ((char - base + key) % 26) + base
    ELSE char

caesar_encrypt(plaintext, key) ==
    [i \in 1..Len(plaintext) |-> ShiftChar(plaintext[i], key)]

\* decryption that shifts forward: the key is not negated
caesar_decrypt_forward(ctext, key) == caesar_encrypt(ctext, key)

caesar_decrypt(ctext, key) == caesar_encrypt(ctext, -key)

---------------------------------------------------------------------------
(* crypto/bruteforce.py *)

\* range(1, 26)
FirstKey == 1
LastKey == 25

\* range(1, 25): the last key is never tried
caesar_bruteforce_short(ctext) ==
    [i \in 1..(LastKey - FirstKey) |->
        <<FirstKey + i - 1, caesar_decrypt(ctext, FirstKey + i - 1)>>]

caesar_bruteforce(ctext) ==
    [i \in 1..(LastKey - FirstKey + 1) |->
        <<FirstKey + i - 1, caesar_decrypt(ctext, FirstKey + i - 1)>>]

---------------------------------------------------------------------------
(* Arithmetic of the feature extractors *)

\* what a division by zero yields: Python raises ZeroDivisionError
ZeroDivisionError == -1

\* round(n / d) for n >= 0: the quotient rounded to the nearest integer,
\* a tie to the even one
RoundDiv(n, d) ==
    IF d = 0 THEN ZeroDivisionError
    ELSE LET q == n \div d
             r == n % d
         IN  IF 2 * r < d THEN q
             ELSE IF 2 * r > d THEN q + 1
             ELSE IF q % 2 = 0 THEN q ELSE q + 1

Min(a, b) == IF a < b THEN a ELSE b
Max(a, b) == IF a > b THEN a ELSE b
Abs(a) == IF a < 0 THEN 0 - a ELSE a

RECURSIVE SumSeq(_)
SumSeq(s) == IF s = <<>> THEN 0 ELSE Head(s) + SumSeq(Tail(s))

\* [c for c in text if c.isalpha()]
RECURSIVE AlphaOnly(_)
AlphaOnly(s) ==
    IF s = <<>> THEN <<>>
    ELSE IF isalpha(Head(s)) THEN <<Head(s)>> \o AlphaOnly(Tail(s))
         ELSE AlphaOnly(Tail(s))

\* number of positions of s that hold x
Count(s, x) == Cardinality({i \in DOMAIN s : s[i] = x})

---------------------------------------------------------------------------
(* crypto/scoring.py *)

\* [a-zA-Z]
IsAsciiLetter(c) == c \in 65..90 \/ c \in 97..122

\* re.findall(r"[a-zA-Z]+", s): the maximal runs of ASCII letters of s, left
\* to right; cur is the run being read, acc the runs found
RECURSIVE FindWords(_, _, _)
FindWords(s, cur, acc) ==
    IF s = <<>> THEN (IF cur = <<>> THEN acc ELSE Append(acc, cur))
    ELSE IF IsAsciiLetter(Head(s))
         THEN FindWords(Tail(s), Append(cur, Head(s)), acc)
         ELSE FindWords(Tail(s), <<>>,
                        IF cur = <<>> THEN acc ELSE Append(acc, cur))

tokenize(t) == FindWords([i \in 1..Len(t) |-> lower(t[i])], <<>>, <<>>)

---------------------------------------------------------------------------
(* bin/crack_caesar.py: linguistic features *)

\* (n_stop, n_total, round(pct, 2)) without the n_total > 0 guard
stopwords_stats_unguarded(t, stopwords) ==
    LET words   == tokenize(t)
        n_total == Len(words)
        n_stop  == Cardinality({i \in DOMAIN words : words[i] \in stopwords})
    IN  <<n_stop, n_total, RoundDiv(n_stop * 10000, n_total)>>

\* (n_stop, n_total, round(pct, 2)), pct in hundredths of a percent
stopwords_stats(t, stopwords) ==
    LET words   == tokenize(t)
        n_total == Len(words)
        n_stop  == Cardinality({i \in DOMAIN words : words[i] \in stopwords})
        pct     == IF n_total > 0 THEN RoundDiv(n_stop * 10000, n_total) ELSE 0
    IN  <<n_stop, n_total, pct>>

\* mean token length, in hundredths of a letter
avg_word_length(t) ==
    LET words == tokenize(t)
    IN  IF words = <<>> THEN 0
        ELSE RoundDiv(SumSeq([i \in DOMAIN words |-> Len(words[i])]) * 100,
                      Len(words))

\* share of alphabetic characters, in hundredths of a percent
alpha_ratio(t) ==
    LET letters == AlphaOnly(t)
        total   == Len(t)
    IN  IF total > 0 THEN RoundDiv(Len(letters) * 10000, total) ELSE 0

---------------------------------------------------------------------------
(* crypto/frequency.py *)

\* 'abcdefghijklmnopqrstuvwxyz'
Alphabet == 97..122

\* FRENCH_FREQ, ENGLISH_FREQ: hundredths of a percent, 'a' first
FRENCH_FREQ ==
    <<764, 90, 326, 367, 1471, 106, 87, 74, 753, 61, 5, 546, 297,
      710, 538, 302, 136, 655, 795, 724, 631, 184, 7, 43, 13, 33>>

ENGLISH_FREQ ==
    <<817, 149, 278, 425, 1270, 223, 202, 609, 697, 15, 77, 403, 241,
      675, 751, 193, 10, 599, 633, 906, 276, 98, 236, 15, 197, 7>>

\* [c.lower() for c in text if c.isalpha()]
LowerLetters(t) ==
    LET letters == AlphaOnly(t)
    IN  [i \in DOMAIN letters |-> lower(letters[i])]

\* the frequency (hundredths of a percent) of each letter of the alphabet;
\* the empty map when the text holds no letter
letter_frequency(t) ==
    LET letters == LowerLetters(t)
        total   == Len(letters)
    IN  IF total = 0 THEN <<>>
        ELSE [l \in Alphabet |-> RoundDiv(Count(letters, l) * 10000, total)]

\* sum over the letters of (observed - expected)^2 / expected as a pair
\* <<whole part, fraction in millionths>> (units: hundredths)
RECURSIVE ChiSum(_, _, _)
ChiSum(letter, freq_ref, freq_obs) ==
    IF letter \notin Alphabet THEN <<0, 0>>
    ELSE LET expected == freq_ref[letter - 96]
             observed == IF letter \in DOMAIN freq_obs THEN freq_obs[letter] ELSE 0
             sq       == (observed - expected) * (observed - expected)
             rest     == ChiSum(letter + 1, freq_ref, freq_obs)
         IN  IF expected > 0
             THEN <<rest[1] + sq \div expected,
                    rest[2] + ((sq % expected) * 1000000) \div expected>>
             ELSE rest

\* round(chi2, 2) in hundredths.  The fractions are added to a millionth of
\* a hundredth, the whole parts exactly.
chi_squared_test(t, language) ==
    LET freq_ref == IF language = "fr" THEN FRENCH_FREQ ELSE ENGLISH_FREQ
        freq_obs == letter_frequency(t)
        chi2     == ChiSum(97, freq_ref, freq_obs)
    IN  chi2[1] + RoundDiv(chi2[2], 1000000)

\* round(ic, 4) in ten-thousandths
index_of_coincidence(t) ==
    LET letters == LowerLetters(t)
        N       == Len(letters)
        seen    == {letters[i] : i \in DOMAIN letters}
        pairs   == [c \in seen |-> Count(letters, c) * (Count(letters, c) - 1)]
        RECURSIVE SumOver(_)
        SumOver(S) == IF S = {} THEN 0
                      ELSE LET c == CHOOSE x \in S : TRUE
                           IN  pairs[c] + SumOver(S \ {c})
    IN  IF N <= 1 THEN 0
        ELSE RoundDiv(SumOver(seen) * 10000, N * (N - 1))

---------------------------------------------------------------------------
(* bin/crack_caesar.py: composite score *)

\* the score without the cap of the stopword sub-score (pct_stop / 50)
compute_normalized_score_uncapped(n_stop, pct_stop, chi2, ic, avg_len, alpha_r) ==
    RoundDiv(112 * pct_stop + 21 * Max(0, 20000 - chi2) + 300 * Min(ic, 700)
             + 280 * Max(0, 500 - Abs(500 - avg_len)) + 7 * alpha_r, 140)

\* the score with the chi-squared sub-score taken as chi2 / 200
compute_normalized_score_chi(n_stop, pct_stop, chi2, ic, avg_len, alpha_r) ==
    RoundDiv(112 * Min(pct_stop, 5000) + 21 * Min(chi2, 20000) + 300 * Min(ic, 700)
             + 280 * Max(0, 500 - Abs(500 - avg_len)) + 7 * alpha_r, 140)

\* round(score_final, 2) in hundredths.  With the inputs in hundredths (ic in
\* ten-thousandths) the sub-scores are
\*   score_stopwords = min(pct_stop, 5000) / 5000         weight 40
\*   score_chi2      = max(0, 20000 - chi2) / 20000       weight 30
\*   score_ic        = min(ic, 700) / 700                 weight 15
\*   score_avg_len   = max(0, 500 - |500 - avg_len|) / 500  weight 10
\*   score_alpha     = alpha_r / 10000                    weight  5
\* and 100 * score_final is the sum below over 140.
compute_normalized_score(n_stop, pct_stop, chi2, ic, avg_len, alpha_r) ==
    LET score_stopwords == Min(pct_stop, 5000)
        score_chi2      == Max(0, 20000 - chi2)
        score_ic        == Min(ic, 700)
        score_avg_len   == Max(0, 500 - Abs(500 - avg_len))
        score_alpha     == alpha_r
    IN  RoundDiv(112 * score_stopwords + 21 * score_chi2 + 300 * score_ic
                 + 280 * score_avg_len + 7 * score_alpha, 140)

---------------------------------------------------------------------------
(* Inputs of the test-style driver *)

\* 'A', 'z', ' ', '1', e-acute, E-acute
Chars == {65, 122, 32, 49, 233, 201}

RECURSIVE TextsOfLen(_)
TextsOfLen(n) ==
    IF n = 0 THEN {<<>>}
    ELSE {Append(t, c) : t \in TextsOfLen(n - 1), c \in Chars}

Texts == UNION {TextsOfLen(n) : n \in 0..MaxLen}

Keys == (0 - MaxKey)..MaxKey

---------------------------------------------------------------------------
(* The crypto/ functions driven as src/tests drives them *)

InitCaesar ==
    /\ pc = "start"
    /\ text \in Texts
    /\ k \in Keys
    /\ cipher = <<>>
    /\ recovered = <<>>
    /\ brute = <<>>
    /\ freq = <<>>
    /\ ciphertext = <<>> /\ stop_fr = {} /\ stop_en = {}
    /\ candidates = <<>> /\ step = 0 /\ results = <<>>
    /\ results_sorted = <<>> /\ gap = 0 /\ confidence = ""
    /\ features = <<>> /\ score = 0

\* ciphertext = caesar_encrypt(plaintext, key)
Encrypt ==
    /\ pc = "start"
    /\ cipher' = caesar_encrypt(text, k)
    /\ pc' = "encrypted"
    /\ UNCHANGED <<text, k, recovered, brute, freq, mainVars, scoreVars>>

\* recovered = caesar_decrypt(ciphertext, key)
Decrypt ==
    /\ pc = "encrypted"
    /\ recovered' = caesar_decrypt(cipher, k)
    /\ pc' = "decrypted"
    /\ UNCHANGED <<text, k, cipher, brute, freq, mainVars, scoreVars>>

\* results = caesar_bruteforce(caesar_encrypt(plaintext, key))
BruteforceCipher ==
    /\ pc = "encrypted"
    /\ brute' = caesar_bruteforce(cipher)
    /\ pc' = "bruteforced"
    /\ UNCHANGED <<text, k, cipher, recovered, freq, mainVars, scoreVars>>

\* results = caesar_bruteforce(<a ciphertext given as is>)
BruteforceText ==
    /\ pc = "start"
    /\ brute' = caesar_bruteforce(text)
    /\ pc' = "counted"
    /\ UNCHANGED <<text, k, cipher, recovered, freq, mainVars, scoreVars>>

\* freq_obs = letter_frequency(text)
LetterFrequency ==
    /\ pc = "start"
    /\ freq' = letter_frequency(text)
    /\ pc' = "measured"
    /\ UNCHANGED <<text, k, cipher, recovered, brute, mainVars, scoreVars>>

NextCaesar ==
    Encrypt \/ Decrypt \/ BruteforceCipher \/ BruteforceText \/ LetterFrequency

SpecCaesar == InitCaesar /\ [][NextCaesar]_vars

---------------------------------------------------------------------------
(* bin/crack_caesar.py: main() *)

\* for lang, stopwords in [("fr", stop_fr), ("en", stop_en)]
Languages == <<"fr", "en">>

\* the metrics of one iteration of the analysis loop:
\* <<(n_stop, n_total, pct_stop), chi2, ic, avg_len, alpha_r>>
Metrics(plaintext, lang, stopwords) ==
    <<stopwords_stats(plaintext, stopwords),
      chi_squared_test(plaintext, lang),
      index_of_coincidence(plaintext),
      avg_word_length(plaintext),
      alpha_ratio(plaintext)>>

\* whether computing the metrics raised
Raised(m) == ZeroDivisionError \in {m[1][3], m[2], m[3], m[4], m[5]}

\* the dict appended to results
Result(key, plaintext, lang, m) ==
    [key |-> key, language |-> lang, plaintext |-> plaintext,
     n_stop |-> m[1][1], n_total |-> m[1][2], pct_stop |-> m[1][3],
     chi2 |-> m[2], ic |-> m[3], avg_len |-> m[4], alpha_ratio |-> m[5],
     score |-> compute_normalized_score(m[1][1], m[1][3], m[2], m[3], m[4], m[5])]

\* insertion that puts an equal score in front of the entries already there
RECURSIVE InsertFirst(_, _)
InsertFirst(s, r) ==
    IF s = <<>> THEN <<r>>
    ELSE IF Head(s).score > r.score
         THEN <<Head(s)>> \o InsertFirst(Tail(s), r)
         ELSE <<r>> \o s

\* r put into s (sorted by decreasing score) behind every entry whose score
\* is at least r's: the place a stable sort gives a later element
RECURSIVE InsertStable(_, _)
InsertStable(s, r) ==
    IF s = <<>> THEN <<r>>
    ELSE IF Head(s).score >= r.score
         THEN <<Head(s)>> \o InsertStable(Tail(s), r)
         ELSE <<r>> \o s

\* sorted(rs, key=lambda x: x["score"], reverse=True): a stable sort
RECURSIVE SortedByScore(_)
SortedByScore(rs) ==
    IF rs = <<>> THEN <<>>
    ELSE InsertStable(SortedByScore(SubSeq(rs, 1, Len(rs) - 1)), rs[Len(rs)])

\* the if / elif chain on gap, with the second threshold at 20 instead of 5
ConfidenceWide(g) ==
    IF g > 1000 THEN "TRES HAUTE"
    ELSE IF g > 2000 THEN "HAUTE"
    ELSE IF g > 200 THEN "MOYENNE"
    ELSE "FAIBLE"

\* the if / elif chain on gap (hundredths of a point)
Confidence(g) ==
    IF g > 1000 THEN "TRES HAUTE"
    ELSE IF g > 500 THEN "HAUTE"
    ELSE IF g > 200 THEN "MOYENNE"
    ELSE "FAIBLE"

---------------------------------------------------------------------------
(* Inputs of main() *)

\* longest of the short ciphertexts
MaxCipherLen == 2

\* 'A', 'b', ' ', '1', e-acute
CipherChars == {65, 98, 32, 49, 233}

RECURSIVE CipherTextsOfLen(_)
CipherTextsOfLen(n) ==
    IF n = 0 THEN {<<>>}
    ELSE {Append(t, c) : t \in CipherTextsOfLen(n - 1), c \in CipherChars}

\* "Aol xburr iyvdu mve"
Scenario ==
    <<65, 111, 108, 32, 120, 98, 117, 114, 114, 32, 105, 121, 118, 100,
      117, 32, 109, 118, 101>>

\* "The qunkk brown fox"
ScenarioPlain ==
    <<84, 104, 101, 32, 113, 117, 110, 107, 107, 32, 98, 114, 111, 119,
      110, 32, 102, 111, 120>>

\* "The quick brown fox", and its encryption with key 7, "Aol xbpjr iyvdu mve"
QuickBrownFox ==
    <<84, 104, 101, 32, 113, 117, 105, 99, 107, 32, 98, 114, 111, 119,
      110, 32, 102, 111, 120>>

QuickCipher == caesar_encrypt(QuickBrownFox, 7)

\* "wkh fdw oh fkdw od e f g": "the cat le chat la b c d" encrypted with key 3
Mixed ==
    <<119, 107, 104, 32, 102, 100, 119, 32, 111, 104, 32, 102, 107, 100,
      119, 32, 111, 100, 32, 101, 32, 102, 32, 103>>

Ciphertexts ==
    UNION {CipherTextsOfLen(n) : n \in 0..MaxCipherLen} \cup {Scenario, QuickCipher, Mixed}

\* stopwords: "the", "a", "i", "le", "la"
W_the == <<116, 104, 101>>
W_a == <<97>>
W_i == <<105>>
W_le == <<108, 101>>
W_la == <<108, 97>>

StopFrChoices == {{}, {W_le, W_la, W_a}}
StopEnChoices == {{W_the}, {W_the, W_a, W_i}}

InitMain ==
    /\ pc = "bruteforce"
    /\ ciphertext \in Ciphertexts
    /\ stop_fr \in StopFrChoices
    /\ stop_en \in StopEnChoices
    /\ candidates = <<>> /\ step = 0 /\ results = <<>>
    /\ results_sorted = <<>> /\ gap = 0 /\ confidence = ""
    /\ text = <<>> /\ k = 0 /\ cipher = <<>> /\ recovered = <<>> /\ brute = <<>>
    /\ freq = <<>>
    /\ features = <<>> /\ score = 0

\* candidates = caesar_bruteforce(ciphertext)
Bruteforce ==
    /\ pc = "bruteforce"
    /\ candidates' = caesar_bruteforce(ciphertext)
    /\ pc' = "analyse"
    /\ UNCHANGED <<ciphertext, stop_fr, stop_en, step, results, results_sorted,
                   gap, confidence, testVars, scoreVars>>

\* one iteration of: for key, plaintext in candidates: for lang, stopwords in ...
AnalyseNext ==
    /\ pc = "analyse"
    /\ step < Len(candidates) * Len(Languages)
    /\ LET cand == candidates[(step \div Len(Languages)) + 1]
           lang == Languages[(step % Len(Languages)) + 1]
           m    == Metrics(cand[2], lang, IF lang = "fr" THEN stop_fr ELSE stop_en)
       IN  IF Raised(m)
           THEN pc' = "crashed" /\ UNCHANGED <<results, step>>
           ELSE /\ results' = Append(results, Result(cand[1], cand[2], lang, m))
                /\ step' = step + 1
                /\ pc' = pc
    /\ UNCHANGED <<ciphertext, stop_fr, stop_en, candidates, results_sorted,
                   gap, confidence, testVars, scoreVars>>

\* results_sorted = sorted(results, key=lambda x: x["score"], reverse=True)
Rank ==
    /\ pc = "analyse"
    /\ step = Len(candidates) * Len(Languages)
    /\ results_sorted' = SortedByScore(results)
    /\ pc' = "ranked"
    /\ UNCHANGED <<ciphertext, stop_fr, stop_en, candidates, step, results,
                   gap, confidence, testVars, scoreVars>>

\* best = results_sorted[0]; gap = best score - results_sorted[1] score; the label
Decide ==
    /\ pc = "ranked"
    /\ IF Len(results_sorted) < 2
       THEN pc' = "crashed" /\ UNCHANGED <<gap, confidence>>
       ELSE /\ gap' = results_sorted[1].score - results_sorted[2].score
            /\ confidence' = Confidence(results_sorted[1].score
                                        - results_sorted[2].score)
            /\ pc' = "done"
    /\ UNCHANGED <<ciphertext, stop_fr, stop_en, candidates, step, results,
                   results_sorted, testVars, scoreVars>>

Next == Bruteforce \/ AnalyseNext \/ Rank \/ Decide

Spec == InitMain /\ [][Next]_vars

---------------------------------------------------------------------------
(* compute_normalized_score called on its own *)

\* GridN + 1 values spread over 0..max
Grid(max) == {(max * j) \div GridN : j \in 0..GridN}

FeatureInputs ==
    {<<n_stop, pct_stop, chi2, ic, avg_len, alpha_r>> :
        n_stop \in {0, 1},
        pct_stop \in Grid(10000),
        chi2 \in Grid(MaxChi2),
        ic \in Grid(1400) \cup {MaxIc},
        avg_len \in Grid(MaxAvgLen),
        alpha_r \in Grid(10000)}

InitScore ==
    /\ pc = "features"
    /\ features \in FeatureInputs
    /\ score = 0
    /\ text = <<>> /\ k = 0 /\ cipher = <<>> /\ recovered = <<>> /\ brute = <<>>
    /\ freq = <<>>
    /\ ciphertext = <<>> /\ stop_fr = {} /\ stop_en = {}
    /\ candidates = <<>> /\ step = 0 /\ results = <<>>
    /\ results_sorted = <<>> /\ gap = 0 /\ confidence = ""

\* score = compute_normalized_score(n_stop, pct_stop, chi2, ic, avg_len, alpha_r)
Score ==
    /\ pc = "features"
    /\ score' = compute_normalized_score(features[1], features[2], features[3],
                                         features[4], features[5], features[6])
    /\ pc' = "scored"
    /\ UNCHANGED <<features, testVars, mainVars>>

NextScore == Score

SpecScore == InitScore /\ [][NextScore]_vars

---------------------------------------------------------------------------
(* Properties of the cipher and of the key search *)

\* C1 (as claimed): round trip. For every text t and every shift k in 1..25,
\* caesar_decrypt(caesar_encrypt(t, k), k) equals t.
C1_RoundTrip ==
    (pc = "decrypted" /\ k \in 1..25) => recovered = text

\* C2: caesar_bruteforce returns exactly 25 (shift, plaintext) entries, the
\* shifts being 1, 2, ..., 25 in this order, for every ciphertext; for the
\* empty ciphertext every plaintext is empty.
C2_BruteforceShape ==
    pc \in {"bruteforced", "counted"} =>
        /\ Len(brute) = 25
        /\ \A i \in 1..25 : i \in DOMAIN brute /\ brute[i][1] = i
        /\ LET input == IF pc = "counted" THEN text ELSE cipher
           IN  input = <<>> => \A i \in DOMAIN brute : brute[i][2] = <<>>

\* a key search over a non-empty ciphertext that holds a letter and a symbol
C2_Witness ==
    /\ pc = "counted"
    /\ text = <<122, 49>>
    /\ Len(brute) = 25
    /\ brute[25] = <<25, <<97, 49>>>>

\* C3 (as claimed): with c = caesar_encrypt(p, k) and k in 1..25, the entry
\* of caesar_bruteforce(c) whose shift is k holds p.
C3_BruteforceRecovers ==
    (pc = "bruteforced" /\ k \in 1..25) =>
        /\ \E i \in DOMAIN brute : brute[i][1] = k
        /\ \A i \in DOMAIN brute : brute[i][1] = k => brute[i][2] = text

\* C10 (as claimed): key periodicity. caesar_encrypt(t, k) equals
\* caesar_encrypt(t, k mod 26) for every integer k; k = 0 returns t
\* unchanged and k = 29 gives the result of k = 3.
C10_KeyPeriodicity ==
    pc = "encrypted" =>
        /\ cipher = caesar_encrypt(text, k % 26)
        /\ k = 0 => cipher = text
        /\ k = 29 => cipher = caesar_encrypt(text, 3)

\* C11: non-alphabetic invariance. caesar_encrypt(t, k) has the length of
\* t, and every position of t that holds a non-alphabetic character holds
\* the same character in caesar_encrypt(t, k).
C11_NonAlphaInvariant ==
    pc = "encrypted" =>
        /\ Len(cipher) = Len(text)
        /\ \A i \in DOMAIN text :
              ~isalpha(text[i]) => (i \in DOMAIN cipher /\ cipher[i] = text[i])

\* "z1" encrypted with key 7 is "g1": the letter moved, the digit stayed
C11_Witness ==
    /\ pc = "encrypted"
    /\ text = <<122, 49>>
    /\ k = 7
    /\ cipher = <<103, 49>>

\* Python's str.islower on Latin-1
islower(c) ==
    \/ c \in 97..122 \/ c \in {170, 181, 186}
    \/ c \in 223..246 \/ c \in 248..255

\* C12: case preservation. For every alphabetic text t and every key k,
\* at each position the character of caesar_encrypt(t, k) is an uppercase
\* letter when that of t is uppercase and a lowercase letter when that of
\* t is lowercase.
C12_CasePreserved ==
    (pc = "encrypted" /\ \A i \in DOMAIN text : isalpha(text[i])) =>
        /\ Len(cipher) = Len(text)
        /\ \A i \in DOMAIN text :
              /\ isupper(text[i]) => (isalpha(cipher[i]) /\ isupper(cipher[i]))
              /\ islower(text[i]) => (isalpha(cipher[i]) /\ islower(cipher[i]))

\* "Az" encrypted with key 7 is "Hg"
C12_Witness ==
    /\ pc = "encrypted"
    /\ text = <<65, 122>>
    /\ k = 7
    /\ cipher = <<72, 103>>

\* C13 (as claimed): letter_frequency(text) returns a map with an entry for
\* each of the 26 letters a..z for every text; when the text holds no
\* letter, the empty text included, each of the 26 entries is 0.
C13_FrequencyMapTotal ==
    pc = "measured" =>
        /\ DOMAIN freq = Alphabet
        /\ AlphaOnly(text) = <<>> => \A l \in Alphabet : freq[l] = 0

---------------------------------------------------------------------------
(* Properties of the scorer *)

\* C5: score boundedness. For valid features (pct_stop and alpha_r in
\* [0, 100], chi2, ic, avg_len >= 0) compute_normalized_score returns a
\* value between 0 and 100.
C5_ScoreBounded ==
    pc = "scored" => (0 <= score /\ score <= 10000)

\* every sub-score at its cap: the score reaches 100
C5_Witness ==
    /\ pc = "scored"
    /\ features = <<1, 10000, 0, 1400, 500, 10000>>
    /\ score = 10000

AllZero == <<0, 0, 0, 0, 0, 0>>

\* C6 (as claimed): compute_normalized_score returns 0 when every feature is 0.
C6_AllZeroScoresZero ==
    (pc = "scored" /\ features = AllZero) => score = 0

\* C6 (amended): compute_normalized_score returns 30 when every feature is
\* 0: chi2 = 0 earns the whole chi-squared weight, the other sub-scores are 0.
C6_AllZeroScoresThirty ==
    (pc = "scored" /\ features = AllZero) => score = 3000

C6_Witness == pc = "scored" /\ features = AllZero /\ score = 3000

---------------------------------------------------------------------------
(* Properties of main() *)

\* C4 (as claimed): for the ciphertext "Aol xburr iyvdu mve" ("The quick
\* brown fox" encrypted with shift 7) and an English stopword set holding
\* "the", the candidate of shift 19 is at rank 0 and its stopword
\* percentage is positive.
C4_ScenarioRanksShift19 ==
    (pc = "done" /\ ciphertext \in {Scenario, QuickCipher} /\ W_the \in stop_en) =>
        (results_sorted[1].key = 19 /\ results_sorted[1].pct_stop > 0)

\* C4 (amended): for the ciphertext "Aol xburr iyvdu mve", and for "Aol
\* xbpjr iyvdu mve" (which is "The quick brown fox" encrypted with shift 7),
\* the candidate at rank 0 is the one of shift 7, the encryption key, scored
\* as English; it is the ciphertext decrypted with key 7 ("The qunkk brown
\* fox", "The quick brown fox") and its stopword percentage is positive.
\* The candidate of shift 19 holds no stopword.
C4_ScenarioRanksShift7 ==
    (pc = "done" /\ ciphertext \in {Scenario, QuickCipher} /\ W_the \in stop_en) =>
        /\ results_sorted[1].key = 7
        /\ results_sorted[1].language = "en"
        /\ results_sorted[1].plaintext
              = (IF ciphertext = Scenario THEN ScenarioPlain ELSE QuickBrownFox)
        /\ results_sorted[1].pct_stop > 0
        /\ \A i \in DOMAIN results_sorted :
              results_sorted[i].key = 19 => results_sorted[i].pct_stop = 0

C4_Witness ==
    /\ pc = "done"
    /\ ciphertext = Scenario
    /\ W_the \in stop_en
    /\ results_sorted[1].key = 7
    /\ results_sorted[1].pct_stop = 2500

\* place of a result in the enumeration shift 1..25 x [fr, en]
EnumOrder(r) == 2 * (r.key - 1) + (IF r.language = "fr" THEN 0 ELSE 1)

\* C7: the ranked list is a permutation of the scored results, in
\* non-increasing score order, and of two results with the same score the
\* one enumerated first (lower shift; for one shift, fr before en) ranks
\* first.
C7_RankingStable ==
    pc \in {"ranked", "done"} =>
        /\ Len(results_sorted) = Len(results)
        /\ {results_sorted[i] : i \in DOMAIN results_sorted}
              = {results[i] : i \in DOMAIN results}
        /\ \A i, j \in DOMAIN results_sorted :
              i < j =>
                 /\ results_sorted[i].score >= results_sorted[j].score
                 /\ results_sorted[i].score = results_sorted[j].score
                       => EnumOrder(results_sorted[i]) < EnumOrder(results_sorted[j])

\* a ranking with a strict leader, a tie behind it, and an entry that moved up
C7_Witness ==
    /\ pc = "ranked"
    /\ ciphertext = Scenario
    /\ results_sorted[1].score > results_sorted[2].score
    /\ results_sorted[2].score = results_sorted[3].score
    /\ results_sorted[1] = results[14]

\* C8: with gap = score at rank 0 - score at rank 1, the label is "very
\* high" exactly when gap > 10, "high" exactly when 5 < gap <= 10, "medium"
\* exactly when 2 < gap <= 5 and "low" exactly when gap <= 2; each gap has
\* one label.
C8_ConfidenceLabel ==
    pc = "done" =>
        /\ gap = results_sorted[1].score - results_sorted[2].score
        /\ confidence \in {"TRES HAUTE", "HAUTE", "MOYENNE", "FAIBLE"}
        /\ confidence = "TRES HAUTE" <=> gap > 1000
        /\ confidence = "HAUTE" <=> (500 < gap /\ gap <= 1000)
        /\ confidence = "MOYENNE" <=> (200 < gap /\ gap <= 500)
        /\ confidence = "FAIBLE" <=> gap <= 200

\* a decision with a gap of 7.58 points
C8_Witness ==
    /\ pc = "done"
    /\ ciphertext = Mixed
    /\ gap = 758
    /\ confidence = "HAUTE"

\* C9: every run produces exactly 25 x 2 = 50 scored results, one per
\* (shift, language) pair, for every ciphertext, the empty and the
\* symbol-only one included; no step raises, and ranks 0 and 1 exist.
C9_FiftyResults ==
    /\ pc # "crashed"
    /\ pc = "analyse" => (Len(results) = step /\ step <= 50)
    /\ pc \in {"ranked", "done"} =>
          /\ Len(results) = 50
          /\ \A key \in 1..25, lang \in {"fr", "en"} :
                Cardinality({i \in DOMAIN results :
                    results[i].key = key /\ results[i].language = lang}) = 1
          /\ Len(results_sorted) >= 2

\* the run of a symbol-only ciphertext, "1 ", at its end
C9_Witness ==
    /\ pc = "done"
    /\ ciphertext = <<49, 32>>
    /\ Len(results) = 50
    /\ results[1].n_total = 0

====
